---- MODULE Spec2Model ----
(***************************************************************************)
(* Emoji ID authentication of dajbelshaw/Scheduler: the relational store   *)
(* (users, recovery_codes, sessions), the credential hasher, the session   *)
(* store, the recovery-code vault and the request handlers of the auth     *)
(* router, as a state machine.                                             *)
(*                                                                         *)
(* Node runs the handlers on one thread: a handler runs uninterrupted from *)
(* one await to the next, and the store executes one statement at a time.  *)
(* Every action below is therefore one store statement of one request,     *)
(* together with the synchronous code that leads up to it and follows it.  *)
(*                                                                         *)
(* randomBytes is modelled as a draw of a value never drawn before: the    *)
(* counter entropy numbers the drawn values that are kept (stored, held in *)
(* a local or sent); a drawn value that is discarded leaves no trace.      *)
(* PBKDF2 and SHA-256 are modelled as injective constructors over their    *)
(* inputs.                                                                 *)
(***************************************************************************)
EXTENDS Integers, Sequences, FiniteSets, TLC

VARIABLES
    users,           \* table users: sequence of rows, id = position (SERIAL)
    recovery_codes,  \* table recovery_codes: committed rows, id = position
    sessions,        \* table sessions: set of rows
    now,             \* the clock (Date.now() and NOW()), in hours
    entropy,         \* number of random values drawn and kept so far
    started,         \* number of requests received so far
    pc,              \* per request slot: the statement it is waiting on
    args,            \* per request slot: the request (operation, body, cookie)
    loc,             \* per request slot: the handler's local variables
    resp,            \* per request slot: the response sent
    issued,          \* tokens createSession has returned: [token, userId, at]
    handed,          \* recovery codes a signup response has shown: [userId, code, k]
    revoked,         \* tokens for which deleteSession has completed
    consumed,        \* calls of consumeRecoveryCode that returned true: [userId, code, nth]
    verifying,       \* a call of verifyIcalUrl on its own: arguments and outcome
    answered         \* sessions granted by me, requireAuth and recover: [op, userId, token]

storeVars == <<users, recovery_codes, sessions>>
procVars == <<pc, args, loc, resp>>
vars == <<users, recovery_codes, sessions, now, entropy, started,
          pc, args, loc, resp, issued, handed, revoked, consumed, verifying,
          answered>>

----------------------------------------------------------------------------
(* Bounds of the model *)

NumProcs == 2
MaxRequests == 3
MaxTicks == 3
CodesTried == 2

Procs == 1..NumProcs

(* Program constants *)

CODE_COUNT == 5
SESSION_TTL_HOURS == 24 * 7
MAX_ATTEMPTS == 10

(* The clock advances in steps of half a session lifetime. *)
TickHours == SESSION_TTL_HOURS \div 2

----------------------------------------------------------------------------
(* Request inputs *)

EMOJI_ALPHABET == {"a", "b"}

IsValidEmojiId(id) ==
    /\ Len(id) = 4
    /\ \A i \in 1..Len(id) : id[i] \in EMOJI_ALPHABET

NoEmojiId == <<>>
EmojiIdInputs ==
    { <<"a", "a", "a", "a">>, <<"a", "a", "a", "b">>, <<"a", "a", "a">>,
      <<"a", "a", "a", "z">> }
ValidEmojiIds == { id \in EmojiIdInputs : IsValidEmojiId(id) }
InvalidEmojiIds == EmojiIdInputs \ ValidEmojiIds

NoUrl == [protocol |-> "", hostname |-> "", id |-> 0]
UrlInputs ==
    { [protocol |-> "https:", hostname |-> "cal.example", id |-> 1],
      [protocol |-> "webcal:", hostname |-> "cal.example", id |-> 2],
      [protocol |-> "http:", hostname |-> "cal.example", id |-> 3] }

\* Mutant: the protocol test is dropped, any URL with a hostname passes.
IsPlausibleIcalUrlAnyProtocol(url) == url.hostname # ""

IsPlausibleIcalUrl(url) ==
    /\ url.protocol \in {"https:", "webcal:"}
    /\ url.hostname # ""

PlausibleUrls == { url \in UrlInputs : IsPlausibleIcalUrl(url) }
ImplausibleUrls == UrlInputs \ PlausibleUrls

NoToken == 0
NoCode == 0
BogusCode == -1
BogusToken == -1

----------------------------------------------------------------------------
(* Credential hasher *)

DeriveHash(url, salt) == <<"pbkdf2", url, salt>>

HashIcalUrl(url, salt) == [hash |-> DeriveHash(url, salt), salt |-> salt]

\* Mutant: only the lengths of the two hex strings are compared, and they
\* are always equal.
VerifyIcalUrlLengthOnly(candidateUrl, stored) ==
    Len(DeriveHash(candidateUrl, stored.salt)) = Len(stored.hash)

\* Column values that are not a hash or a salt: NULL (both columns are
\* nullable), and hex text of which Buffer.from(.., 'hex') decodes n bytes.
NullHash == <<"null">>
NullSalt == 0
MalformedHash(n) == <<"hex", n>>
HASH_BYTES == 32

\* Buffer.from(hash, 'hex').length; -1 when Buffer.from throws (null).
HexBytes(hash) ==
    IF hash = NullHash THEN -1
    ELSE IF hash[1] = "hex" THEN hash[2]
    ELSE HASH_BYTES

\* verifyIcalUrl: "true", "false", or "throws" when an exception reaches the
\* caller. deriveHash runs before the try: pbkdf2Sync throws a TypeError for
\* a salt that is null. Inside the try, Buffer.from throws for a null hash
\* and timingSafeEqual throws for buffers of different length.
VerifyOutcome(candidateUrl, stored) ==
    IF stored.salt = NullSalt THEN "throws"
    ELSE IF HexBytes(stored.hash) # HASH_BYTES THEN "false"
    ELSE IF DeriveHash(candidateUrl, stored.salt) = stored.hash THEN "true"
    ELSE "false"

VerifyIcalUrl(candidateUrl, stored) ==
    VerifyOutcome(candidateUrl, stored) = "true"

----------------------------------------------------------------------------
(* Recovery-code vault: pure parts *)

HashCode(plain, salt) == <<"pbkdf2", plain, salt>>

\* The k-th of the CODE_COUNT codes, drawn after e random values.
GeneratedCode(e, k) ==
    [plain |-> e + 2 * k - 1,
     hash  |-> HashCode(e + 2 * k - 1, e + 2 * k),
     salt  |-> e + 2 * k]

GenerateRecoveryCodes(e) == [k \in 1..CODE_COUNT |-> GeneratedCode(e, k)]

CodeRow(userId, code) ==
    [user_id |-> userId, hash |-> code.hash, salt |-> code.salt, used |-> FALSE]

\* Mutant: the SELECT without AND used = false.
UnusedRowsAnyUse(userId) ==
    { id \in 1..Len(recovery_codes) : recovery_codes[id].user_id = userId }

\* Mutant: the SELECT without user_id = $1, the unused rows of every account.
UnusedRowsAnyAccount(userId) ==
    { id \in 1..Len(recovery_codes) : recovery_codes[id].used = FALSE }

\* SELECT id ... WHERE user_id = $1 AND used = false
UnusedRows(userId) ==
    { id \in 1..Len(recovery_codes) :
        /\ recovery_codes[id].user_id = userId
        /\ recovery_codes[id].used = FALSE }

\* The loop over the selected rows: the rows whose hash the candidate matches.
MatchingRows(rows, candidateCode) ==
    { id \in rows :
        HashCode(candidateCode, recovery_codes[id].salt) = recovery_codes[id].hash }

\* Mutant: UPDATE recovery_codes SET used = true WHERE id = $1 AND used = true
MarkUsedIfUsed(table, id) ==
    [r \in DOMAIN table |->
        IF r = id /\ table[r].used THEN [table[r] EXCEPT !.used = TRUE]
        ELSE table[r]]

\* Mutant: UPDATE recovery_codes SET used = (id = $1), with no WHERE.
MarkUsedOnly(table, id) ==
    [r \in DOMAIN table |-> [table[r] EXCEPT !.used = (r = id)]]

\* UPDATE recovery_codes SET used = true WHERE id = $1
MarkUsed(table, id) == [table EXCEPT ![id].used = TRUE]

\* Mutant: SELECT COUNT(*) ... WHERE user_id = $1, without AND used = false.
RemainingRecoveryCodesOfAll(userId) == Cardinality(UnusedRowsAnyUse(userId))

\* SELECT COUNT(*) ... WHERE user_id = $1 AND used = false
RemainingRecoveryCodes(userId) == Cardinality(UnusedRows(userId))

----------------------------------------------------------------------------
(* Session store: pure parts *)

HashToken(token) == <<"sha256", token>>

\* Mutant: a lifetime of SESSION_TTL_HOURS minutes instead of hours.
SessionRowMinutes(userId, token, at) ==
    [user_id |-> userId, token_hash |-> HashToken(token),
     expires_at |-> at + SESSION_TTL_HOURS \div 60]

SessionRow(userId, token, at) ==
    [user_id |-> userId, token_hash |-> HashToken(token),
     expires_at |-> at + SESSION_TTL_HOURS]

NoSession == [userId |-> 0, emojiId |-> NoEmojiId]

\* Mutant: AND s.expires_at >= NOW()
ValidateRowsInclusive(token) ==
    { [userId |-> s.user_id, emojiId |-> users[u].emoji_id] :
        <<s, u>> \in { su \in sessions \X (1..Len(users)) :
                         /\ su[2] = su[1].user_id
                         /\ su[1].token_hash = HashToken(token)
                         /\ su[1].expires_at >= now } }

\* SELECT s.user_id, u.emoji_id FROM sessions s JOIN users u ON u.id = s.user_id
\* WHERE s.token_hash = $1 AND s.expires_at > NOW()
ValidateRows(token) ==
    { [userId |-> s.user_id, emojiId |-> users[u].emoji_id] :
        <<s, u>> \in { su \in sessions \X (1..Len(users)) :
                         /\ su[2] = su[1].user_id
                         /\ su[1].token_hash = HashToken(token)
                         /\ su[1].expires_at > now } }

\* Mutant: the row is looked up by hash alone and an expired row is
\* returned as a session marked expired.
ValidateSessionMarksExpired(token) ==
    IF ValidateRows(token) # {} THEN CHOOSE r \in ValidateRows(token) : TRUE
    ELSE IF \E s \in sessions : s.token_hash = HashToken(token)
    THEN [userId |-> -1, emojiId |-> NoEmojiId]
    ELSE NoSession

ValidateSession(token) ==
    IF ValidateRows(token) = {} THEN NoSession
    ELSE CHOOSE r \in ValidateRows(token) : TRUE

\* Mutant: the DELETE names the owner of the token's row, not the row:
\* DELETE FROM sessions WHERE user_id = (SELECT user_id ... WHERE token_hash = $1)
DeleteSessionsOfOwner(table, token) ==
    { s \in table : ~\E r \in table : /\ r.token_hash = HashToken(token)
                                      /\ r.user_id = s.user_id }

\* Mutant: the DELETE carries the purge's condition too, AND expires_at <= NOW().
DeleteSessionIfExpired(table, token) ==
    { s \in table : ~(s.token_hash = HashToken(token) /\ s.expires_at <= now) }

\* Mutant: DELETE FROM sessions, with no WHERE.
DeleteSessionEveryRow(table, token) == { s \in table : FALSE }

\* DELETE FROM sessions WHERE token_hash = $1
DeleteSession(table, token) ==
    { s \in table : s.token_hash # HashToken(token) }

\* Mutant: the purge runs ahead of the clock,
\* DELETE FROM sessions WHERE expires_at <= NOW() + INTERVAL '84 hours'
PurgeExpiring(table, t) == { s \in table : ~(s.expires_at <= t + TickHours) }

\* Mutant: DELETE FROM sessions WHERE expires_at >= NOW()
PurgeUnexpired(table, t) == { s \in table : ~(s.expires_at >= t) }

\* DELETE FROM sessions WHERE expires_at <= NOW()
PurgeExpired(table, t) == { s \in table : ~(s.expires_at <= t) }

----------------------------------------------------------------------------
(* Requests, locals and responses *)

NoArgs ==
    [op |-> "none", emojiId |-> NoEmojiId, icalUrl |-> NoUrl,
     recoveryCode |-> NoCode, newIcalUrl |-> NoUrl, token |-> NoToken,
     fetched |-> "none"]

NoLoc ==
    [emojiId |-> NoEmojiId, userId |-> 0, codes |-> <<>>, pending |-> <<>>,
     i |-> 0, attempts |-> 0, rows |-> {}, matchId |-> 0, valid |-> FALSE,
     remaining |-> -1, session |-> NoSession, threw |-> "none",
     derivations |-> 0]

NoResp ==
    [status |-> 0, error |-> "", emojiId |-> NoEmojiId, recoveryCodes |-> <<>>,
     remainingRecoveryCodes |-> -1, warning |-> FALSE, cookie |-> NoToken,
     ok |-> FALSE]

Failure(status, error) == [NoResp EXCEPT !.status = status, !.error = error]

\* A session granted to a request: validateSession returned it to me or to
\* requireAuth, or recover opened it.
Granted(op, userId, token) == [op |-> op, userId |-> userId, token |-> token]

NoCall == [candidateUrl |-> NoUrl, stored |-> [hash |-> NullHash, salt |-> NullSalt],
           outcome |-> "none"]

Init ==
    /\ users = <<>>
    /\ recovery_codes = <<>>
    /\ sessions = {}
    /\ now = 0
    /\ entropy = 0
    /\ started = 0
    /\ pc = [p \in Procs |-> "idle"]
    /\ args = [p \in Procs |-> NoArgs]
    /\ loc = [p \in Procs |-> NoLoc]
    /\ resp = [p \in Procs |-> NoResp]
    /\ issued = {}
    /\ handed = {}
    /\ revoked = {}
    /\ consumed = {}
    /\ verifying = NoCall
    /\ answered = {}

----------------------------------------------------------------------------
(* Steps shared by the handlers *)

\* The response is sent and the handler returns.
Respond(p, l, r) ==
    /\ pc' = [pc EXCEPT ![p] = "done"]
    /\ loc' = [loc EXCEPT ![p] = l]
    /\ resp' = [resp EXCEPT ![p] = r]
    /\ verifying' = verifying

\* The handler goes on to wait for its next statement.
Goto(p, label, l) ==
    /\ pc' = [pc EXCEPT ![p] = label]
    /\ loc' = [loc EXCEPT ![p] = l]
    /\ resp' = resp
    /\ verifying' = verifying

\* A store error escapes the async handler: no response is ever sent.
Throw(p, l, what) ==
    /\ pc' = [pc EXCEPT ![p] = "crashed"]
    /\ loc' = [loc EXCEPT ![p] = [l EXCEPT !.threw = what]]
    /\ resp' = resp
    /\ verifying' = verifying

\* The router hands the request to its handler in a free slot.
Accept(p, request) ==
    /\ pc[p] = "idle"
    /\ started' = started + 1
    /\ args' = [args EXCEPT ![p] = request]

Receive(p, request) ==
    /\ started < MaxRequests
    /\ Accept(p, request)

UsersByEmojiId(id) == { u \in 1..Len(users) : users[u].emoji_id = id }

IsEmojiIdTaken(id) == UsersByEmojiId(id) # {}

\* Clients present a token they were sent, a token never issued, or none.
TokenInputs == { t.token : t \in issued } \cup {NoToken, BogusToken}

\* Clients present the first CodesTried codes of a batch, or a code never issued.
CodeInputs == { h.code : h \in { x \in handed : x.k <= CodesTried } } \cup {BogusCode}

\* Mutant: one session per account, the INSERT is preceded by
\* DELETE FROM sessions WHERE user_id = $1
CreateSessionSingle(userId, token) ==
    /\ sessions' = { s \in sessions : s.user_id # userId }
                      \cup {SessionRow(userId, token, now)}
    /\ issued' = issued \cup {[token |-> token, userId |-> userId, at |-> now]}
    /\ entropy' = entropy + 1

\* createSession: the row inserted for a fresh token, which is returned.
CreateSession(userId, token) ==
    /\ sessions' = sessions \cup {SessionRow(userId, token, now)}
    /\ issued' = issued \cup {[token |-> token, userId |-> userId, at |-> now]}
    /\ entropy' = entropy + 1

----------------------------------------------------------------------------
(* generateUniqueEmojiId: one draw and its isEmojiIdTaken query *)

\* Mutant: the bound is tested after the draw that exceeds it (<= for <).
GenerateDrawOffByOne(p) ==
    /\ pc[p] = "generate"
    /\ \E id \in ValidEmojiIds :
         IF ~IsEmojiIdTaken(id)
         THEN IF args[p].op = "signup"
              THEN Goto(p, "signup:insert", [loc[p] EXCEPT !.emojiId = id])
              ELSE Respond(p, [loc[p] EXCEPT !.emojiId = id],
                           [NoResp EXCEPT !.status = 200, !.emojiId = id])
         ELSE IF loc[p].attempts + 1 <= MAX_ATTEMPTS
              THEN Goto(p, "generate", [loc[p] EXCEPT !.attempts = @ + 1])
              ELSE Respond(p, [loc[p] EXCEPT !.attempts = @ + 1],
                           Failure(503, "Could not generate Emoji ID"))
    /\ UNCHANGED <<storeVars, now, entropy, started, args,
                   issued, handed, revoked, consumed, answered>>

GenerateDraw(p) ==
    /\ pc[p] = "generate"
    /\ \E id \in ValidEmojiIds :
         IF ~IsEmojiIdTaken(id)
         THEN IF args[p].op = "signup"
              THEN Goto(p, "signup:insert", [loc[p] EXCEPT !.emojiId = id])
              ELSE Respond(p, [loc[p] EXCEPT !.emojiId = id],
                           [NoResp EXCEPT !.status = 200, !.emojiId = id])
         ELSE IF loc[p].attempts + 1 < MAX_ATTEMPTS
              THEN Goto(p, "generate", [loc[p] EXCEPT !.attempts = @ + 1])
              ELSE Respond(p, [loc[p] EXCEPT !.attempts = @ + 1],
                           Failure(503, "Could not generate Emoji ID"))
    /\ UNCHANGED <<storeVars, now, entropy, started, args,
                   issued, handed, revoked, consumed, answered>>

(* GET /auth/suggest *)

Suggest(p) ==
    /\ Receive(p, [NoArgs EXCEPT !.op = "suggest"])
    /\ Goto(p, "generate", NoLoc)
    /\ UNCHANGED <<storeVars, now, entropy, issued, handed, revoked, consumed, answered>>

----------------------------------------------------------------------------
(* POST /auth/signup *)

FetchOutcomes == {"ical", "other", "unreachable"}

\* Mutant: the taken Emoji ID is answered as one more validation failure.
SignupConflictAsValidation == Failure(400, "Emoji ID already taken")

\* res.status(409).json({ error: 'Emoji ID already taken' })
SignupConflict == Failure(409, "Emoji ID already taken")

Signup(p, requestedId, icalUrl, fetched) ==
    /\ Receive(p, [NoArgs EXCEPT !.op = "signup", !.emojiId = requestedId,
                                 !.icalUrl = icalUrl, !.fetched = fetched])
    /\ IF icalUrl = NoUrl \/ ~IsPlausibleIcalUrl(icalUrl)
       THEN Respond(p, NoLoc, Failure(400, "Invalid iCal URL"))
       ELSE IF fetched = "unreachable"
       THEN Respond(p, NoLoc, Failure(400, "Could not fetch iCal URL"))
       ELSE IF fetched = "other"
       THEN Respond(p, NoLoc, Failure(400, "URL does not appear to be an iCal feed"))
       ELSE IF requestedId # NoEmojiId
       THEN IF ~IsValidEmojiId(requestedId)
            THEN Respond(p, NoLoc, Failure(400, "Invalid Emoji ID format"))
            ELSE IF IsEmojiIdTaken(requestedId)
            THEN Respond(p, NoLoc, SignupConflict)
            ELSE Goto(p, "signup:insert", [NoLoc EXCEPT !.emojiId = requestedId])
       ELSE Goto(p, "generate", NoLoc)
    /\ UNCHANGED <<storeVars, now, entropy, issued, handed, revoked, consumed, answered>>

\* Mutant: the column is added without UNIQUE.
UniqueViolationNever(table, row) == FALSE

\* emoji_id VARCHAR(32) UNIQUE: the INSERT of a row whose emoji_id a stored
\* row has is refused.
UniqueViolation(table, row) ==
    \E u \in 1..Len(table) : table[u].emoji_id = row.emoji_id

\* hashIcalUrl, INSERT INTO users ... RETURNING id, generateRecoveryCodes
SignupInsertUser(p) ==
    /\ pc[p] = "signup:insert"
    /\ LET cred == HashIcalUrl(args[p].icalUrl, entropy + 1)
           row == [emoji_id |-> loc[p].emojiId, ical_hash |-> cred.hash,
                   ical_salt |-> cred.salt]
       IN \E fault \in BOOLEAN :
            IF fault
            THEN /\ Throw(p, [loc[p] EXCEPT !.derivations = 1], "INSERT INTO users")
                 /\ entropy' = entropy
                 /\ users' = users
            ELSE IF UniqueViolation(users, row)
            THEN /\ Throw(p, [loc[p] EXCEPT !.derivations = 1], "users_emoji_id_key")
                 /\ entropy' = entropy
                 /\ users' = users
            ELSE /\ users' = Append(users, row)
                 /\ entropy' = entropy + 1 + 2 * CODE_COUNT
                 /\ Goto(p, "store:begin",
                         [loc[p] EXCEPT !.userId = Len(users) + 1,
                                        !.codes = GenerateRecoveryCodes(entropy + 1),
                                        !.derivations = 1 + CODE_COUNT])
    /\ UNCHANGED <<recovery_codes, sessions, now, started, args,
                   issued, handed, revoked, consumed, answered>>

----------------------------------------------------------------------------
(* storeRecoveryCodes *)

\* Mutant: the INSERT runs outside the transaction (on the pool, autocommit).
TxInsertAutocommit(visible, pending, row) ==
    [visible |-> Append(visible, row), pending |-> pending]

\* An INSERT inside the open transaction: the row is not visible to other
\* connections until COMMIT.
TxInsert(visible, pending, row) ==
    [visible |-> visible, pending |-> Append(pending, row)]

\* catch: ROLLBACK, rethrow
Rollback(p) ==
    /\ Throw(p, [loc[p] EXCEPT !.pending = <<>>], "storeRecoveryCodes")
    /\ recovery_codes' = recovery_codes

\* pool.connect(), BEGIN
StoreBegin(p) ==
    /\ pc[p] = "store:begin"
    /\ \E fault \in BOOLEAN :
         IF fault
         THEN Rollback(p)
         ELSE /\ Goto(p, "store:insert", [loc[p] EXCEPT !.pending = <<>>, !.i = 0])
              /\ recovery_codes' = recovery_codes
    /\ UNCHANGED <<users, sessions, now, entropy, started, args,
                   issued, handed, revoked, consumed, answered>>

\* for (const code of codes) INSERT INTO recovery_codes ...
StoreInsert(p) ==
    /\ pc[p] = "store:insert"
    /\ loc[p].i < Len(loc[p].codes)
    /\ \E fault \in BOOLEAN :
         IF fault
         THEN Rollback(p)
         ELSE LET row == CodeRow(loc[p].userId, loc[p].codes[loc[p].i + 1])
                  t == TxInsert(recovery_codes, loc[p].pending, row)
              IN /\ recovery_codes' = t.visible
                 /\ Goto(p, IF loc[p].i + 1 < Len(loc[p].codes)
                            THEN "store:insert" ELSE "store:commit",
                         [loc[p] EXCEPT !.pending = t.pending, !.i = @ + 1])
    /\ UNCHANGED <<users, sessions, now, entropy, started, args,
                   issued, handed, revoked, consumed, answered>>

\* COMMIT
StoreCommit(p) ==
    /\ pc[p] = "store:commit"
    /\ \E fault \in BOOLEAN :
         IF fault
         THEN Rollback(p)
         ELSE /\ recovery_codes' = recovery_codes \o loc[p].pending
              /\ Goto(p, "signup:session", [loc[p] EXCEPT !.pending = <<>>])
    /\ UNCHANGED <<users, sessions, now, entropy, started, args,
                   issued, handed, revoked, consumed, answered>>

\* createSession, res.cookie, res.status(201).json
SignupSession(p) ==
    /\ pc[p] = "signup:session"
    /\ CreateSession(loc[p].userId, entropy + 1)
    /\ handed' = handed \cup
         { [userId |-> loc[p].userId, code |-> loc[p].codes[k].plain, k |-> k] :
             k \in 1..Len(loc[p].codes) }
    /\ Respond(p, loc[p],
               [NoResp EXCEPT !.status = 201, !.emojiId = loc[p].emojiId,
                              !.recoveryCodes =
                                  [k \in 1..Len(loc[p].codes) |-> loc[p].codes[k].plain],
                              !.cookie = entropy + 1])
    /\ UNCHANGED <<users, recovery_codes, now, started, args, revoked, consumed, answered>>

----------------------------------------------------------------------------
(* POST /auth/signin *)

\* Mutant: the not-found path returns at once, without the dummy hash.
SigninDummyWorkSkipped(icalUrl) == <<>>

\* hashIcalUrl(icalUrl) on the not-found path: the derivations it performs;
\* the result is discarded.
SigninDummyWork(icalUrl) == <<HashIcalUrl(icalUrl, entropy + 1).hash>>

\* Mutant: an unknown Emoji ID is answered as such.
SigninUnknownAccountRevealed == Failure(404, "Unknown Emoji ID")

\* if (rows.length === 0): res.status(401).json({ error: 'Invalid credentials' })
SigninUnknownAccount == Failure(401, "Invalid credentials")

\* if (!valid): res.status(401).json({ error: 'Invalid credentials' })
SigninWrongCredential == Failure(401, "Invalid credentials")

Signin(p, emojiId, icalUrl) ==
    /\ Receive(p, [NoArgs EXCEPT !.op = "signin", !.emojiId = emojiId,
                                 !.icalUrl = icalUrl])
    /\ IF emojiId = NoEmojiId \/ icalUrl = NoUrl
       THEN /\ Respond(p, NoLoc, Failure(400, "Emoji ID and iCal URL are required"))
            /\ entropy' = entropy
       ELSE IF ~IsValidEmojiId(emojiId)
       THEN /\ Respond(p, NoLoc, Failure(400, "Invalid Emoji ID format"))
            /\ entropy' = entropy
       ELSE IF UsersByEmojiId(emojiId) = {}
       THEN \* the dummy hashIcalUrl(icalUrl): its result is discarded
            /\ Respond(p, [NoLoc EXCEPT !.derivations = Len(SigninDummyWork(icalUrl))],
                       SigninUnknownAccount)
            /\ entropy' = entropy
       ELSE \E u \in UsersByEmojiId(emojiId) :
              /\ entropy' = entropy
              /\ IF VerifyIcalUrl(icalUrl, [hash |-> users[u].ical_hash,
                                            salt |-> users[u].ical_salt])
                 THEN Goto(p, "signin:session",
                           [NoLoc EXCEPT !.userId = u, !.derivations = 1])
                 ELSE Respond(p, [NoLoc EXCEPT !.userId = u, !.derivations = 1],
                              SigninWrongCredential)
    /\ UNCHANGED <<storeVars, now, issued, handed, revoked, consumed, answered>>

SigninSession(p) ==
    /\ pc[p] = "signin:session"
    /\ CreateSession(loc[p].userId, entropy + 1)
    /\ Respond(p, loc[p],
               [NoResp EXCEPT !.status = 200, !.emojiId = args[p].emojiId,
                              !.cookie = entropy + 1])
    /\ UNCHANGED <<users, recovery_codes, now, started, args,
                   handed, revoked, consumed, answered>>

----------------------------------------------------------------------------
(* POST /auth/recover *)

\* The handler up to its first await: the checks of the body and the SELECT
\* of the account.
RecoverLookup(p, emojiId, recoveryCode, newIcalUrl) ==
    /\ IF emojiId = NoEmojiId \/ recoveryCode = NoCode
       THEN Respond(p, NoLoc, Failure(400, "Emoji ID and recovery code are required"))
       ELSE IF ~IsValidEmojiId(emojiId)
       THEN Respond(p, NoLoc, Failure(400, "Invalid Emoji ID format"))
       ELSE IF UsersByEmojiId(emojiId) = {}
       THEN Respond(p, NoLoc, Failure(401, "Invalid credentials"))
       ELSE \E u \in UsersByEmojiId(emojiId) :
              Goto(p, "consume:select", [NoLoc EXCEPT !.userId = u])
    /\ UNCHANGED <<storeVars, now, entropy, issued, handed, revoked, consumed, answered>>

RecoverArgs(emojiId, recoveryCode, newIcalUrl) ==
    [NoArgs EXCEPT !.op = "recover", !.emojiId = emojiId,
                   !.recoveryCode = recoveryCode, !.newIcalUrl = newIcalUrl]

Recover(p, emojiId, recoveryCode, newIcalUrl) ==
    /\ Receive(p, RecoverArgs(emojiId, recoveryCode, newIcalUrl))
    /\ RecoverLookup(p, emojiId, recoveryCode, newIcalUrl)

\* consumeRecoveryCode: the SELECT of the unused rows and the loop over them
ConsumeSelect(p) ==
    /\ pc[p] = "consume:select"
    /\ LET rows == UnusedRows(loc[p].userId)
           match == MatchingRows(rows, args[p].recoveryCode)
       IN IF match = {}
          THEN \* hashCode ran once for every selected row
               Respond(p, [loc[p] EXCEPT !.rows = rows, !.valid = FALSE,
                                         !.derivations = Cardinality(rows)],
                       Failure(401, "Invalid or already-used recovery code"))
          ELSE \* the rows come in no specified order: hashCode ran for the
               \* matching row and for the rows before it
               \E id \in match, n \in 1..Cardinality(rows) :
                 Goto(p, "consume:mark", [loc[p] EXCEPT !.rows = rows, !.matchId = id,
                                                        !.derivations = n])
    /\ UNCHANGED <<storeVars, now, entropy, started, args,
                   issued, handed, revoked, consumed, answered>>

\* consumeRecoveryCode: the UPDATE of the matching row and return true; then the
\* handler's check of newIcalUrl
ConsumeMark(p) ==
    /\ pc[p] = "consume:mark"
    /\ recovery_codes' = MarkUsed(recovery_codes, loc[p].matchId)
    /\ consumed' = consumed \cup
         {[userId |-> loc[p].userId, code |-> args[p].recoveryCode,
           nth |-> 1 + Cardinality({ c \in consumed :
                                       /\ c.userId = loc[p].userId
                                       /\ c.code = args[p].recoveryCode })]}
    /\ LET l == [loc[p] EXCEPT !.valid = TRUE]
       IN IF args[p].newIcalUrl # NoUrl
          THEN IF ~IsPlausibleIcalUrl(args[p].newIcalUrl)
               THEN Respond(p, l, Failure(400, "Invalid iCal URL"))
               ELSE Goto(p, "recover:rotate", l)
          ELSE Goto(p, "recover:remaining", l)
    /\ UNCHANGED <<users, sessions, now, entropy, started, args,
                   issued, handed, revoked, answered>>

\* Mutant: UPDATE users SET ical_hash = $1, ical_salt = $2, with no WHERE.
RecoverRotateEveryRow(p) ==
    /\ pc[p] = "recover:rotate"
    /\ LET cred == HashIcalUrl(args[p].newIcalUrl, entropy + 1)
       IN \E fault \in BOOLEAN :
            IF fault
            THEN /\ Throw(p, [loc[p] EXCEPT !.derivations = @ + 1], "UPDATE users")
                 /\ entropy' = entropy
                 /\ users' = users
            ELSE /\ entropy' = entropy + 1
                 /\ users' = [u \in DOMAIN users |->
                                [users[u] EXCEPT !.ical_hash = cred.hash,
                                                 !.ical_salt = cred.salt]]
                 /\ Goto(p, "recover:remaining", [loc[p] EXCEPT !.derivations = @ + 1])
    /\ UNCHANGED <<recovery_codes, sessions, now, started, args,
                   issued, handed, revoked, consumed, answered>>

\* Mutant: UPDATE users SET ical_hash = $1 WHERE id = $2, the salt is kept.
RecoverRotateHashOnly(p) ==
    /\ pc[p] = "recover:rotate"
    /\ LET cred == HashIcalUrl(args[p].newIcalUrl, entropy + 1)
       IN \E fault \in BOOLEAN :
            IF fault
            THEN /\ Throw(p, [loc[p] EXCEPT !.derivations = @ + 1], "UPDATE users")
                 /\ entropy' = entropy
                 /\ users' = users
            ELSE /\ entropy' = entropy + 1
                 /\ users' = [users EXCEPT ![loc[p].userId].ical_hash = cred.hash]
                 /\ Goto(p, "recover:remaining", [loc[p] EXCEPT !.derivations = @ + 1])
    /\ UNCHANGED <<recovery_codes, sessions, now, started, args,
                   issued, handed, revoked, consumed, answered>>

\* Mutant: the rotation signs the account out everywhere, the UPDATE is
\* followed by DELETE FROM sessions WHERE user_id = $1.
RecoverRotateRevoking(p) ==
    /\ pc[p] = "recover:rotate"
    /\ LET cred == HashIcalUrl(args[p].newIcalUrl, entropy + 1)
       IN \E fault \in BOOLEAN :
            IF fault
            THEN /\ Throw(p, [loc[p] EXCEPT !.derivations = @ + 1], "UPDATE users")
                 /\ entropy' = entropy
                 /\ users' = users
                 /\ sessions' = sessions
            ELSE /\ entropy' = entropy + 1
                 /\ users' = [users EXCEPT ![loc[p].userId].ical_hash = cred.hash,
                                           ![loc[p].userId].ical_salt = cred.salt]
                 /\ sessions' = { s \in sessions : s.user_id # loc[p].userId }
                 /\ Goto(p, "recover:remaining", [loc[p] EXCEPT !.derivations = @ + 1])
    /\ UNCHANGED <<recovery_codes, now, started, args,
                   issued, handed, revoked, consumed, answered>>

\* hashIcalUrl, UPDATE users SET ical_hash = $1, ical_salt = $2 WHERE id = $3
RecoverRotate(p) ==
    /\ pc[p] = "recover:rotate"
    /\ LET cred == HashIcalUrl(args[p].newIcalUrl, entropy + 1)
       IN \E fault \in BOOLEAN :
            IF fault
            THEN /\ Throw(p, [loc[p] EXCEPT !.derivations = @ + 1], "UPDATE users")
                 /\ entropy' = entropy
                 /\ users' = users
            ELSE /\ entropy' = entropy + 1
                 /\ users' = [users EXCEPT ![loc[p].userId].ical_hash = cred.hash,
                                           ![loc[p].userId].ical_salt = cred.salt]
                 /\ Goto(p, "recover:remaining", [loc[p] EXCEPT !.derivations = @ + 1])
    /\ UNCHANGED <<recovery_codes, sessions, now, started, args,
                   issued, handed, revoked, consumed, answered>>

\* remainingRecoveryCodes
RecoverRemaining(p) ==
    /\ pc[p] = "recover:remaining"
    /\ Goto(p, "recover:session",
            [loc[p] EXCEPT !.remaining = RemainingRecoveryCodes(loc[p].userId)])
    /\ UNCHANGED <<storeVars, now, entropy, started, args,
                   issued, handed, revoked, consumed, answered>>

\* createSession, res.cookie, res.json
RecoverSession(p) ==
    /\ pc[p] = "recover:session"
    /\ CreateSession(loc[p].userId, entropy + 1)
    /\ Respond(p, loc[p],
               [NoResp EXCEPT !.status = 200, !.emojiId = args[p].emojiId,
                              !.remainingRecoveryCodes = loc[p].remaining,
                              !.warning = (loc[p].remaining = 0),
                              !.cookie = entropy + 1])
    /\ answered' = answered \cup {Granted("recover", loc[p].userId, entropy + 1)}
    /\ UNCHANGED <<users, recovery_codes, now, started, args,
                   handed, revoked, consumed>>

----------------------------------------------------------------------------
(* POST /auth/signout, GET /auth/me *)

Signout(p, token) ==
    /\ Receive(p, [NoArgs EXCEPT !.op = "signout", !.token = token])
    /\ IF token # NoToken
       THEN /\ sessions' = DeleteSession(sessions, token)
            /\ revoked' = revoked \cup {token}
       ELSE UNCHANGED <<sessions, revoked>>
    /\ Respond(p, NoLoc, [NoResp EXCEPT !.status = 200, !.ok = TRUE])
    /\ UNCHANGED <<users, recovery_codes, now, entropy, issued, handed, consumed, answered>>

\* Mutant: sliding expiration, a successful validation is followed by
\* UPDATE sessions SET expires_at = NOW() + INTERVAL '7 days' WHERE token_hash = $1
MeSliding(p, token) ==
    /\ Receive(p, [NoArgs EXCEPT !.op = "me", !.token = token])
    /\ IF token = NoToken
       THEN /\ Respond(p, NoLoc, Failure(401, "Not authenticated"))
            /\ answered' = answered
            /\ sessions' = sessions
       ELSE LET session == ValidateSession(token)
            IN IF session = NoSession
               THEN /\ Respond(p, NoLoc, Failure(401, "Session expired"))
                    /\ answered' = answered
                    /\ sessions' = sessions
               ELSE /\ Respond(p, [NoLoc EXCEPT !.session = session],
                               [NoResp EXCEPT !.status = 200,
                                              !.emojiId = session.emojiId])
                    /\ answered' = answered \cup
                                      {Granted("me", session.userId, token)}
                    /\ sessions' =
                         { IF s.token_hash = HashToken(token)
                           THEN [s EXCEPT !.expires_at = now + SESSION_TTL_HOURS]
                           ELSE s : s \in sessions }
    /\ UNCHANGED <<users, recovery_codes, now, entropy, issued, handed, revoked,
                   consumed>>

Me(p, token) ==
    /\ Receive(p, [NoArgs EXCEPT !.op = "me", !.token = token])
    /\ IF token = NoToken
       THEN /\ Respond(p, NoLoc, Failure(401, "Not authenticated"))
            /\ answered' = answered
       ELSE LET session == ValidateSession(token)
            IN IF session = NoSession
               THEN /\ Respond(p, NoLoc, Failure(401, "Session expired"))
                    /\ answered' = answered
               ELSE /\ Respond(p, [NoLoc EXCEPT !.session = session],
                               [NoResp EXCEPT !.status = 200,
                                              !.emojiId = session.emojiId])
                    /\ answered' = answered \cup
                                      {Granted("me", session.userId, token)}
    /\ UNCHANGED <<storeVars, now, entropy, issued, handed, revoked, consumed>>

\* requireAuth: the middleware in front of the routes that need a session;
\* on success it attaches req.session and calls next().
RequireAuth(p, token) ==
    /\ Receive(p, [NoArgs EXCEPT !.op = "requireAuth", !.token = token])
    /\ IF token = NoToken
       THEN /\ Respond(p, NoLoc, Failure(401, "Not authenticated"))
            /\ answered' = answered
       ELSE LET session == ValidateSession(token)
            IN IF session = NoSession
               THEN /\ Respond(p, NoLoc, Failure(401, "Session expired"))
                    /\ answered' = answered
               ELSE /\ Respond(p, [NoLoc EXCEPT !.session = session], NoResp)
                    /\ answered' = answered \cup
                                      {Granted("requireAuth", session.userId, token)}
    /\ UNCHANGED <<storeVars, now, entropy, issued, handed, revoked, consumed>>

----------------------------------------------------------------------------
(* The environment: the nightly purge, the clock, the client *)

PurgeExpiredSessions ==
    /\ sessions' = PurgeExpired(sessions, now)
    /\ UNCHANGED <<users, recovery_codes, now, entropy, started, procVars,
                   issued, handed, revoked, consumed, verifying, answered>>

Tick ==
    /\ now + TickHours <= MaxTicks * TickHours
    /\ now' = now + TickHours
    /\ UNCHANGED <<storeVars, entropy, started, procVars,
                   issued, handed, revoked, consumed, verifying, answered>>

\* The request slot is free again: the response was delivered, or the client
\* gave up on a request that never answered.
Finish(p) ==
    /\ pc[p] \in {"done", "crashed"}
    /\ pc' = [pc EXCEPT ![p] = "idle"]
    /\ args' = [args EXCEPT ![p] = NoArgs]
    /\ loc' = [loc EXCEPT ![p] = NoLoc]
    /\ resp' = [resp EXCEPT ![p] = NoResp]
    /\ UNCHANGED <<storeVars, now, entropy, started,
                   issued, handed, revoked, consumed, verifying, answered>>

----------------------------------------------------------------------------
(* The specification *)

SomeUrl == CHOOSE url \in PlausibleUrls : TRUE
SomeEmojiId == CHOOSE id \in ValidEmojiIds : TRUE

\* The requests sent: every well-formed request over the inputs, and one
\* request for each way a request can be malformed.
SignupRequests ==
    { <<id, url, "ical">> : id \in ValidEmojiIds, url \in PlausibleUrls }
    \cup { <<SomeEmojiId, url, "ical">> : url \in ImplausibleUrls \cup {NoUrl} }
    \cup { <<SomeEmojiId, SomeUrl, f>> : f \in FetchOutcomes \ {"ical"} }
    \cup { <<id, SomeUrl, "ical">> : id \in InvalidEmojiIds }

\* Signups that leave the choice of the Emoji ID to the server.
GeneratingSignupRequests ==
    { <<NoEmojiId, url, "ical">> : url \in PlausibleUrls }

SigninRequests ==
    { <<id, url>> : id \in ValidEmojiIds, url \in PlausibleUrls }
    \cup { <<NoEmojiId, SomeUrl>>, <<SomeEmojiId, NoUrl>> }
    \cup { <<id, SomeUrl>> : id \in InvalidEmojiIds }

RotationInputs == {NoUrl} \cup (UrlInputs \ {SomeUrl})

RecoverRequests ==
    { <<id, code, url>> : id \in ValidEmojiIds, code \in CodeInputs,
                          url \in RotationInputs }
    \cup { <<NoEmojiId, BogusCode, NoUrl>>, <<SomeEmojiId, NoCode, NoUrl>> }
    \cup { <<id, BogusCode, NoUrl>> : id \in InvalidEmojiIds }

\* A request arrives whose Emoji ID, if it needs one, the client supplies.
Arrive(p) ==
    \/ \E r \in SignupRequests : Signup(p, r[1], r[2], r[3])
    \/ \E r \in SigninRequests : Signin(p, r[1], r[2])
    \/ \E r \in RecoverRequests : Recover(p, r[1], r[2], r[3])
    \/ \E token \in TokenInputs : Signout(p, token)
    \/ \E token \in TokenInputs : Me(p, token)

\* A request arrives that has the server generate an Emoji ID.
ArriveGenerating(p) ==
    \/ Suggest(p)
    \/ \E r \in GeneratingSignupRequests : Signup(p, r[1], r[2], r[3])

Step(p) ==
    \/ SignupInsertUser(p)
    \/ StoreBegin(p)
    \/ StoreInsert(p)
    \/ StoreCommit(p)
    \/ SignupSession(p)
    \/ SigninSession(p)
    \/ ConsumeSelect(p)
    \/ ConsumeMark(p)
    \/ RecoverRotate(p)
    \/ RecoverRemaining(p)
    \/ RecoverSession(p)
    \/ Finish(p)

\* Requests are handled concurrently: any request slot may take its next step.
Next ==
    \/ \E p \in Procs : Arrive(p)
    \/ \E p \in Procs : Step(p)
    \/ PurgeExpiredSessions

Spec == Init /\ [][Next]_vars

\* Requests are handled one after the other, in one request slot, while the
\* clock runs; the server may be asked to generate the Emoji ID.
SeqNext ==
    \/ Arrive(1)
    \/ ArriveGenerating(1)
    \/ Step(1)
    \/ GenerateDraw(1)
    \/ \E token \in TokenInputs : RequireAuth(1, token)
    \/ PurgeExpiredSessions
    \/ Tick

SeqSpec == Init /\ [][SeqNext]_vars

\* verifyIcalUrl called on its own, with any stored credential the columns
\* can hold.
VerifySalts == {1, 2}

StoredHashInputs ==
    { DeriveHash(url, salt) : url \in UrlInputs, salt \in VerifySalts }
    \cup {NullHash, MalformedHash(0), MalformedHash(HASH_BYTES - 1),
          MalformedHash(HASH_BYTES)}

StoredSaltInputs == VerifySalts \cup {NullSalt}

VerifyInit ==
    /\ users = <<>>
    /\ recovery_codes = <<>>
    /\ sessions = {}
    /\ now = 0
    /\ entropy = 0
    /\ started = 0
    /\ pc = [p \in Procs |-> "idle"]
    /\ args = [p \in Procs |-> NoArgs]
    /\ loc = [p \in Procs |-> NoLoc]
    /\ resp = [p \in Procs |-> NoResp]
    /\ issued = {}
    /\ handed = {}
    /\ revoked = {}
    /\ consumed = {}
    /\ answered = {}
    /\ \E url \in UrlInputs, hash \in StoredHashInputs, salt \in StoredSaltInputs :
         verifying = [candidateUrl |-> url,
                      stored |-> [hash |-> hash, salt |-> salt],
                      outcome |-> "pending"]

VerifyCall ==
    /\ verifying.outcome = "pending"
    /\ verifying' = [verifying EXCEPT
                       !.outcome = VerifyOutcome(verifying.candidateUrl,
                                                 verifying.stored)]
    /\ UNCHANGED <<storeVars, now, entropy, started, procVars,
                   issued, handed, revoked, consumed, answered>>

VerifyNext == VerifyCall

VerifySpec == VerifyInit /\ [][VerifyNext]_vars

\* Recover requests for one account, as many as it has codes and one more:
\* the state after the first signup has been answered, and from there only
\* recover requests that present one of the codes handed out, with no rotation.
MaxRecovers == 6

SignedUp ==
    LET cred == HashIcalUrl(SomeUrl, 1)
        codes == GenerateRecoveryCodes(1)
        token == 1 + 2 * CODE_COUNT + 1
    IN /\ users = <<[emoji_id |-> SomeEmojiId, ical_hash |-> cred.hash,
                      ical_salt |-> cred.salt]>>
       /\ recovery_codes = [k \in 1..CODE_COUNT |-> CodeRow(1, codes[k])]
       /\ sessions = {SessionRow(1, token, 0)}
       /\ now = 0
       /\ entropy = token
       /\ started = 1
       /\ pc = [p \in Procs |-> "idle"]
       /\ args = [p \in Procs |-> NoArgs]
       /\ loc = [p \in Procs |-> NoLoc]
       /\ resp = [p \in Procs |-> NoResp]
       /\ issued = {[token |-> token, userId |-> 1, at |-> 0]}
       /\ handed = { [userId |-> 1, code |-> codes[k].plain, k |-> k] :
                       k \in 1..CODE_COUNT }
       /\ revoked = {}
       /\ consumed = {}
       /\ verifying = NoCall
       /\ answered = {}

\* The client works through the list of codes it was shown in order: it
\* presents the first code that no recover has consumed, or an earlier one again.
RecoverAgain(p) ==
    \E h \in handed :
        /\ h.k <= 1 + Cardinality({ c.code : c \in consumed })
        /\ started < 1 + MaxRecovers
        /\ Accept(p, RecoverArgs(SomeEmojiId, h.code, NoUrl))
        /\ RecoverLookup(p, SomeEmojiId, h.code, NoUrl)

RecoverNext ==
    \/ \E p \in Procs : RecoverAgain(p)
    \/ \E p \in Procs : ConsumeSelect(p)
    \/ \E p \in Procs : ConsumeMark(p)
    \/ \E p \in Procs : RecoverRemaining(p)
    \/ \E p \in Procs : RecoverSession(p)
    \/ \E p \in Procs : Finish(p)

RecoverSpec == SignedUp /\ [][RecoverNext]_vars

----------------------------------------------------------------------------
(* Properties *)

Users == 1..Len(users)

CodesOf(userId) ==
    { id \in 1..Len(recovery_codes) : recovery_codes[id].user_id = userId }

\* The call of consumeRecoveryCode made by the recover request in slot p has returned.
ConsumeReturned(p) ==
    /\ args[p].op = "recover"
    /\ \/ loc[p].valid
       \/ resp[p].error = "Invalid or already-used recovery code"

\* The SELECT of that call found the presented code among the unused rows.
SelectedUnused(p) == MatchingRows(loc[p].rows, args[p].recoveryCode) # {}

\* C1: of two concurrent calls of consumeRecoveryCode that present the same
\* still-unused code of the same account (both SELECTs found it unused),
\* exactly one returns true and the other returns false.
C1_ConcurrentConsumeExactlyOne ==
    \A p, q \in Procs :
        ( /\ p # q
          /\ ConsumeReturned(p) /\ ConsumeReturned(q)
          /\ loc[p].userId = loc[q].userId
          /\ args[p].recoveryCode = args[q].recoveryCode
          /\ SelectedUnused(p) /\ SelectedUnused(q) )
        => (loc[p].valid # loc[q].valid)

\* C2: when requests run one after the other, consumeRecoveryCode returns true
\* at most once for an account and a code: no call for that account and code
\* is a second (or later) one to return true.
C2_ConsumedAtMostOnce == \A c \in consumed : c.nth = 1

\* C2 witness: a code was consumed, and a later recover presenting it was refused.
C2_Witness ==
    /\ pc[1] = "done"
    /\ resp[1].error = "Invalid or already-used recovery code"
    /\ \E c \in consumed :
         c.userId = loc[1].userId /\ c.code = args[1].recoveryCode

\* C3: a signup whose INSERT INTO users or whose storeRecoveryCodes failed
\* leaves no account row of its own in the store.
C3_SignupAllOrNothing ==
    \A p \in Procs :
        ( /\ args[p].op = "signup"
          /\ pc[p] = "crashed"
          /\ loc[p].threw \in {"INSERT INTO users", "users_emoji_id_key",
                               "storeRecoveryCodes"} )
        => loc[p].userId \notin Users

\* C4: in every state, every account row has exactly CODE_COUNT recovery-code rows.
C4_AccountHasAllCodes ==
    \A u \in Users : Cardinality(CodesOf(u)) = CODE_COUNT

\* C5: storeRecoveryCodes commits all rows of its batch or none: no state shows
\* a strict subset of a batch; while the transaction is open and after a failed
\* insert (the error rethrown) no row of the batch is visible; when the call
\* returns normally the whole batch is visible.
C5_StoreRecoveryCodesAtomic ==
    /\ \A u \in Users : Cardinality(CodesOf(u)) \in {0, CODE_COUNT}
    /\ \A p \in Procs :
         /\ pc[p] \in {"store:begin", "store:insert", "store:commit"}
              => CodesOf(loc[p].userId) = {}
         /\ (pc[p] = "crashed" /\ loc[p].threw = "storeRecoveryCodes")
              => CodesOf(loc[p].userId) = {}
         /\ pc[p] = "signup:session"
              => Cardinality(CodesOf(loc[p].userId)) = CODE_COUNT

\* C5 witness: an insert of the batch failed after earlier inserts of the same
\* batch had succeeded, and none of the batch is visible.
C5_Witness ==
    \E p \in Procs :
        /\ pc[p] = "crashed"
        /\ loc[p].threw = "storeRecoveryCodes"
        /\ loc[p].i >= 2
        /\ CodesOf(loc[p].userId) = {}

\* C6: a recovery-code row that has used = true still exists and has
\* used = true after every step.
C6_UsedNeverReverts ==
    [][\A id \in 1..Len(recovery_codes) :
          recovery_codes[id].used
          => /\ id <= Len(recovery_codes')
             /\ recovery_codes'[id].used]_vars

\* C6 witness: a row is used, and a recover for its account that selected the
\* unused rows after that has completed.
C6_Witness ==
    \E id \in 1..Len(recovery_codes), p \in Procs :
        /\ recovery_codes[id].used
        /\ pc[p] = "done"
        /\ args[p].op = "recover"
        /\ loc[p].userId = recovery_codes[id].user_id
        /\ loc[p].rows # {}
        /\ id \notin loc[p].rows

\* C7: validateSession(token), as called by me, returns a session if and only
\* if a session row with token_hash = hash(token) exists whose expires_at is
\* strictly greater than the time of the call.
C7_ValidateIffUnexpiredRow ==
    [][\A p \in Procs :
          ( /\ pc[p] = "idle"
            /\ pc'[p] = "done"
            /\ args'[p].op = "me"
            /\ args'[p].token # NoToken )
          => ( (resp'[p].status = 200 /\ loc'[p].session # NoSession)
               <=> \E s \in sessions :
                      /\ s.token_hash = HashToken(args'[p].token)
                      /\ s.expires_at > now )]_vars

\* C7 witness: me was refused for a token whose row still exists, at the
\* instant now = expires_at.
C7_Witness ==
    \E p \in Procs, s \in sessions :
        /\ pc[p] = "done"
        /\ args[p].op = "me"
        /\ resp[p].status = 401
        /\ s.token_hash = HashToken(args[p].token)
        /\ s.expires_at = now

\* C8: a token that createSession returned for an account at time t validates
\* at every time before t + 7 days at which it has not been revoked, as the id
\* and the emojiId of that account.
C8_IssuedTokenValidates ==
    \A t \in issued :
        (t.token \notin revoked /\ now < t.at + 7 * 24)
        => ValidateSession(t.token) =
              [userId |-> t.userId, emojiId |-> users[t.userId].emoji_id]

\* C8 witness: with two accounts in the store, me answered with the emojiId of
\* the account the token was issued for, some time after the token was issued.
C8_Witness ==
    \E p \in Procs, t \in issued :
        /\ Len(users) >= 2
        /\ pc[p] = "done"
        /\ args[p].op = "me"
        /\ args[p].token = t.token
        /\ resp[p].status = 200
        /\ resp[p].emojiId = users[t.userId].emoji_id
        /\ now > t.at

\* C9: a token for which deleteSession has completed does not validate, in
\* any later state.
C9_RevokedNeverValidates ==
    \A token \in revoked : ValidateSession(token) = NoSession

\* C9 witness: a token was issued, signout revoked it, and me then refused it.
C9_Witness ==
    \E p \in Procs, t \in issued :
        /\ t.token \in revoked
        /\ pc[p] = "done"
        /\ args[p].op = "me"
        /\ args[p].token = t.token
        /\ resp[p].status = 401

\* C10: purgeExpiredSessions removes only rows whose expires_at is not after
\* the current time, and every token that validates before the purge
\* validates, with the same result, after it.
C10_PurgeKeepsValidSessions ==
    [][PurgeExpiredSessions
       => /\ \A s \in sessions \ sessions' : s.expires_at <= now
          /\ \A t \in issued :
               ValidateSession(t.token) # NoSession
               => ValidateSession(t.token)' = ValidateSession(t.token)]_vars

\* C10 witness: the row of an unrevoked token is gone (purged after its
\* expiry) while another token still validates.
C10_Witness ==
    \E t1, t2 \in issued :
        /\ t1.token \notin revoked
        /\ \A s \in sessions : s.token_hash # HashToken(t1.token)
        /\ ValidateSession(t2.token) # NoSession

----------------------------------------------------------------------------
(* The orchestrator: signout, signin, recover, signup *)

\* The step of slot p of the given operation that ends it with a response
\* in the same step in which the request arrived.
AnsweredAtOnce(p, op) ==
    /\ pc[p] = "idle"
    /\ pc'[p] = "done"
    /\ args'[p].op = op

IssuedTokens == { t.token : t \in issued }

\* The token was issued and its seven days have passed.
IsExpiredToken(token) ==
    \E t \in issued : t.token = token /\ t.at + SESSION_TTL_HOURS <= now

C12_SigninAddsOneSession ==
    [][\A p \in Procs :
          ( /\ pc[p] = "signin:session"
            /\ pc'[p] = "done" )
          => /\ sessions \subseteq sessions'
             /\ Cardinality(sessions' \ sessions) = 1
             /\ \A s \in sessions' \ sessions :
                  /\ s.user_id \in UsersByEmojiId(args[p].emojiId)
                  /\ s.token_hash = HashToken(resp'[p].cookie)
             /\ users' = users
             /\ recovery_codes' = recovery_codes
             /\ \A t \in issued :
                  ValidateSession(t.token) # NoSession
                  => ValidateSession(t.token)' = ValidateSession(t.token)]_vars

\* C12 witness: a signin has succeeded and its account holds two sessions
\* that both validate, the one of the signin and an earlier one.
C12_Witness ==
    \E p \in Procs, t1, t2 \in issued :
        /\ pc[p] = "done"
        /\ args[p].op = "signin"
        /\ resp[p].status = 200
        /\ resp[p].cookie = t2.token
        /\ t1.token # t2.token
        /\ t1.userId = t2.userId
        /\ ValidateSession(t1.token) # NoSession
        /\ ValidateSession(t2.token) # NoSession

\* The signin answered in slot p presented a well-formed emojiId and a
\* credential, and was refused.
SigninRefused(p) ==
    /\ pc[p] = "done"
    /\ args[p].op = "signin"
    /\ IsValidEmojiId(args[p].emojiId)
    /\ args[p].icalUrl # NoUrl
    /\ resp[p].status # 200

\* C13: any two refused signins with a well-formed emojiId get the same
\* response (status, body, no session cookie), in particular one that found no
\* account with that emojiId and one that found the account and a credential
\* that does not match.
C13_SigninFailuresIndistinguishable ==
    \A p, q \in Procs :
        (SigninRefused(p) /\ SigninRefused(q))
        => /\ resp[p] = resp[q]
           /\ resp[p].cookie = NoToken

\* C13 witness: two refused signins with the same emojiId and credential, one
\* made when no account had that emojiId and one made when the account
\* existed with another credential.
C13_Witness ==
    \E p, q \in Procs :
        /\ SigninRefused(p) /\ SigninRefused(q)
        /\ args[p] = args[q]
        /\ loc[p].userId = 0
        /\ loc[q].userId # 0

\* The recover answered in slot p presented a well-formed emojiId and a
\* recovery code, and failed authentication.
RecoverRefused(p) ==
    /\ pc[p] = "done"
    /\ args[p].op = "recover"
    /\ IsValidEmojiId(args[p].emojiId)
    /\ args[p].recoveryCode # NoCode
    /\ resp[p].status = 401

\* C14: any two recover requests with a well-formed emojiId that fail
\* authentication get the same response, whether the account is unknown, the
\* code matches no code of the account, or the code is already used.
C14_RecoverFailuresIndistinguishable ==
    \A p, q \in Procs :
        (RecoverRefused(p) /\ RecoverRefused(q)) => resp[p] = resp[q]

\* C15: in every state no two account rows have the same emoji_id, and no
\* step changes the emoji_id of a stored account row or removes the row.
C15_EmojiIdUniqueAndImmutable ==
    /\ [](\A u, v \in Users : u # v => users[u].emoji_id # users[v].emoji_id)
    /\ [][/\ Len(users') >= Len(users)
          /\ \A u \in Users : users'[u].emoji_id = users[u].emoji_id]_vars

\* C15 witness: two concurrent signups requested the same emojiId and both
\* passed the isEmojiIdTaken check; one created the account and the INSERT of
\* the other was refused by the unique constraint.
C15_Witness ==
    \E p, q \in Procs :
        /\ p # q
        /\ args[p].op = "signup" /\ args[q].op = "signup"
        /\ loc[p].emojiId = loc[q].emojiId
        /\ loc[p].userId \in Users
        /\ users[loc[p].userId].emoji_id = loc[p].emojiId
        /\ pc[q] = "crashed"
        /\ loc[q].threw = "users_emoji_id_key"
        /\ Cardinality(UsersByEmojiId(loc[q].emojiId)) = 1

\* The credential of a stored account row, as the handlers read it.
StoredCredential(u) == [hash |-> users[u].ical_hash, salt |-> users[u].ical_salt]

\* The credential source from which the stored hash of account u was derived
\* (the hash is collision-free: it determines its preimage).
CredentialSource(u) == users[u].ical_hash[2]

\* C16: for every stored account, verifyIcalUrl accepts the source its
\* credential was hashed from and rejects every other source; and a signin
\* with a well-formed emojiId of an existing account passes verification and
\* goes on to create its session exactly when the presented credential is the
\* source of the credential stored for that account.
C16_VerifyAcceptsExactlyTheSource ==
    /\ [](\A u \in Users, url \in UrlInputs :
             VerifyIcalUrl(url, StoredCredential(u)) <=> url = CredentialSource(u))
    /\ [][\A p \in Procs :
             ( /\ pc[p] = "idle"
               /\ args'[p].op = "signin"
               /\ IsValidEmojiId(args'[p].emojiId)
               /\ args'[p].icalUrl # NoUrl
               /\ UsersByEmojiId(args'[p].emojiId) # {} )
             => ( pc'[p] = "signin:session"
                  <=> \E u \in UsersByEmojiId(args'[p].emojiId) :
                         args'[p].icalUrl = CredentialSource(u) )]_vars

\* C16 witness: of two signins to the same account, the one presenting the
\* stored credential succeeded and the one presenting another was refused.
C16_Witness ==
    \E p, q \in Procs :
        /\ pc[p] = "done" /\ pc[q] = "done"
        /\ args[p].op = "signin" /\ args[q].op = "signin"
        /\ loc[p].userId \in Users
        /\ loc[p].userId = loc[q].userId
        /\ resp[p].status = 200
        /\ args[p].icalUrl = CredentialSource(loc[p].userId)
        /\ resp[q].status = 401
        /\ args[q].icalUrl # CredentialSource(loc[p].userId)

\* The recover answered in slot p succeeded.
RecoverSucceeded(p) ==
    /\ pc[p] = "done"
    /\ args[p].op = "recover"
    /\ resp[p].status = 200

\* The rows that were unused when the recover in slot p selected them and
\* are used now.
MarkedSince(p) == { id \in loc[p].rows : recovery_codes[id].used }

\* C17: when requests run one after the other, a recover that succeeded has
\* marked exactly one row of its account used, a row whose hash the presented
\* code matches, and has reported as remainingRecoveryCodes the number of
\* unused rows of the account, one less than before the request.
C17_RecoverMarksOneAndCounts ==
    \A p \in Procs :
        RecoverSucceeded(p)
        => /\ Cardinality(MarkedSince(p)) = 1
           /\ \A id \in MarkedSince(p) :
                /\ recovery_codes[id].user_id = loc[p].userId
                /\ HashCode(args[p].recoveryCode, recovery_codes[id].salt)
                     = recovery_codes[id].hash
           /\ resp[p].remainingRecoveryCodes = Cardinality(UnusedRows(loc[p].userId))
           /\ resp[p].remainingRecoveryCodes = Cardinality(loc[p].rows) - 1

\* C17 witness: the first recover of an account with its 5 codes reported 4.
C17_Witness ==
    \E p \in Procs :
        /\ RecoverSucceeded(p)
        /\ Cardinality(loc[p].rows) = CODE_COUNT
        /\ resp[p].remainingRecoveryCodes = CODE_COUNT - 1

\* The recover in slot p asks for a rotation to a credential that fails the
\* format validation.
RotationMalformed(p) ==
    /\ args[p].op = "recover"
    /\ args[p].newIcalUrl # NoUrl
    /\ ~IsPlausibleIcalUrl(args[p].newIcalUrl)

\* C18: a recover that presented a valid unused code and a new credential of
\* invalid format is answered, in the step that consumes the code, with the
\* invalid-credential-format failure and no cookie; that step leaves the code
\* used, changes no account row (hash and salt stay) and creates no session;
\* and whenever such a request has been answered so, its code's row is used.
C18_MalformedRotationSpendsCode ==
    /\ [][\A p \in Procs :
             ( /\ pc[p] = "consume:mark"
               /\ pc'[p] # "consume:mark"
               /\ RotationMalformed(p) )
             => /\ pc'[p] = "done"
                /\ resp'[p] = Failure(400, "Invalid iCal URL")
                /\ recovery_codes'[loc[p].matchId].used
                /\ users' = users
                /\ sessions' = sessions
                /\ issued' = issued]_vars
    /\ [](\A p \in Procs :
             ( /\ pc[p] = "done"
               /\ RotationMalformed(p)
               /\ loc[p].valid )
             => /\ resp[p] = Failure(400, "Invalid iCal URL")
                /\ recovery_codes[loc[p].matchId].used)

\* C18 witness: a recover with an unused code of an account with all its
\* codes and a new credential of invalid format was refused with the format
\* failure; CODE_COUNT - 1 codes remain and a signin with the old credential
\* would still verify.
C18_Witness ==
    \E p \in Procs :
        /\ pc[p] = "done"
        /\ RotationMalformed(p)
        /\ loc[p].valid
        /\ resp[p].status = 400
        /\ Cardinality(loc[p].rows) = CODE_COUNT
        /\ Cardinality(UnusedRows(loc[p].userId)) = CODE_COUNT - 1
        /\ CredentialSource(loc[p].userId) \in PlausibleUrls

\* C19: generateUniqueEmojiId makes at most MAX_ATTEMPTS draws; the draw on
\* which it returns is the first one the store reported as not taken, and the
\* id it returns is not taken at that time; after MAX_ATTEMPTS taken draws it
\* stops, and suggest and signup answer 503; 503 is answered in no other case.
C19_GenerateBounded ==
    /\ [](\A p \in Procs : loc[p].attempts <= MAX_ATTEMPTS)
    /\ [][\A p \in Procs :
             (pc[p] = "generate" /\ pc'[p] # "generate")
             => IF loc'[p].attempts = loc[p].attempts
                THEN /\ loc[p].attempts < MAX_ATTEMPTS
                     /\ ~IsEmojiIdTaken(loc'[p].emojiId)
                     /\ resp'[p].status # 503
                     /\ args[p].op = "suggest"
                          => (resp'[p].status = 200 /\
                              resp'[p].emojiId = loc'[p].emojiId)
                ELSE /\ loc'[p].attempts = MAX_ATTEMPTS
                     /\ pc'[p] = "done"
                     /\ resp'[p] = Failure(503, "Could not generate Emoji ID")]_vars
    /\ [](\A p \in Procs :
             resp[p].status = 503 => loc[p].attempts = MAX_ATTEMPTS)

\* C19 witness: suggest returned the id of its tenth draw, the first nine
\* having been reported taken.
C19_Witness ==
    \E p \in Procs :
        /\ pc[p] = "done"
        /\ args[p].op = "suggest"
        /\ resp[p].status = 200
        /\ loc[p].attempts = MAX_ATTEMPTS - 1
        /\ ~IsEmojiIdTaken(resp[p].emojiId)

\* The response that rejects a signup.
IsSignupRejection(r) == r.status \in {400, 409, 503}

\* The credential of the signup in slot p fails the format validation.
SignupCredentialMalformed(p) ==
    \/ args[p].icalUrl = NoUrl
    \/ args[p].icalUrl.protocol \notin {"https:", "webcal:"}
    \/ args[p].icalUrl.hostname = ""

\* C20: no step of a signup up to and including the step that rejects it
\* (invalid credential format, failed liveness fetch, malformed emojiId,
\* taken emojiId, allocator exhaustion) writes an account, recovery-code or
\* session row or issues a token or recovery codes; a rejected signup has
\* created no account and carries no cookie and no codes; and a signup whose
\* credential is malformed or not live is rejected for that, whatever its
\* emojiId.
C20_RejectedSignupWritesNothing ==
    /\ [][\A p \in Procs :
             ( /\ args'[p].op = "signup"
               /\ pc[p] \in {"idle", "generate"}
               /\ (pc'[p] # pc[p] \/ loc'[p] # loc[p]) )
             => /\ pc'[p] = "done" => IsSignupRejection(resp'[p])
                /\ storeVars' = storeVars
                /\ issued' = issued
                /\ handed' = handed]_vars
    /\ [](\A p \in Procs :
             (pc[p] = "done" /\ args[p].op = "signup" /\ IsSignupRejection(resp[p]))
             => /\ loc[p].userId = 0
                /\ resp[p].cookie = NoToken
                /\ resp[p].recoveryCodes = <<>>)
    /\ [](\A p \in Procs :
             (pc[p] # "idle" /\ args[p].op = "signup")
             => /\ SignupCredentialMalformed(p)
                  => (pc[p] = "done" /\ resp[p] = Failure(400, "Invalid iCal URL"))
                /\ (~SignupCredentialMalformed(p) /\ args[p].fetched # "ical")
                  => (pc[p] = "done" /\ resp[p].status = 400)
                /\ resp[p].error \in {"Invalid Emoji ID format", "Emoji ID already taken",
                                      "Could not generate Emoji ID"}
                  => (~SignupCredentialMalformed(p) /\ args[p].fetched = "ical"))

\* C20 witness: with an account stored, a signup was rejected because the
\* server could not generate a free Emoji ID.
C20_Witness ==
    \E p \in Procs :
        /\ pc[p] = "done"
        /\ args[p].op = "signup"
        /\ resp[p].status = 503
        /\ loc[p].userId = 0
        /\ Len(users) > 0

----------------------------------------------------------------------------
(* Error classes, store failures, secrets, rotation, hashing work, the purge *)

\* The step in which the signup request of slot p arrives.
SignupArrives(p) ==
    /\ pc[p] = "idle"
    /\ args'[p].op = "signup"

\* C21 (as claimed): a signup whose requested emojiId is assigned to an
\* account when the request arrives is answered 409.
C21_TakenAlwaysConflict ==
    [][\A p \in Procs :
          (SignupArrives(p) /\ IsEmojiIdTaken(args'[p].emojiId))
          => (pc'[p] = "done" /\ resp'[p].status = 409)]_vars

\* C21 (amended): a signup whose credential passed the format and liveness
\* checks and whose well-formed requested emojiId is assigned to an account
\* when it is looked up is answered 409, and 409 is answered in no other
\* case; 400 is answered only for a credential or emojiId that fails
\* validation, 503 only after MAX_ATTEMPTS taken draws, and never 401.
C21_ConflictDistinct ==
    /\ [][\A p \in Procs :
             SignupArrives(p)
             => ( ( /\ ~SignupCredentialMalformed(p)'
                    /\ args'[p].fetched = "ical"
                    /\ IsValidEmojiId(args'[p].emojiId)
                    /\ IsEmojiIdTaken(args'[p].emojiId) )
                  <=> (pc'[p] = "done" /\ resp'[p].status = 409) )]_vars
    /\ [](\A p \in Procs :
             (pc[p] = "done" /\ args[p].op = "signup")
             => /\ resp[p].status \in {201, 400, 409, 503}
                /\ resp[p].status = 400
                     => \/ SignupCredentialMalformed(p)
                        \/ args[p].fetched # "ical"
                        \/ ~IsValidEmojiId(args[p].emojiId)
                /\ resp[p].status = 503
                     <=> (args[p].emojiId = NoEmojiId /\ loc[p].attempts = MAX_ATTEMPTS)
                /\ resp[p].status = 409 => resp[p] = Failure(409, "Emoji ID already taken"))

\* C21 witness: a signup with a live, well-formed credential that requested
\* the emojiId of an existing account was answered 409.
C21_Witness ==
    \E p \in Procs :
        /\ pc[p] = "done"
        /\ args[p].op = "signup"
        /\ resp[p].status = 409
        /\ IsEmojiIdTaken(args[p].emojiId)
        /\ ~SignupCredentialMalformed(p)

\* A store write of the signup or recover in slot p has failed.
StoreWriteFailed(p) ==
    /\ args[p].op \in {"signup", "recover"}
    /\ loc[p].threw # "none"

\* C22: a signup or a recover one of whose store writes failed is answered
\* with a service error (a 5xx response), and no account row written by the
\* failed signup remains.
C22_StoreFailureAnswered ==
    \A p \in Procs :
        StoreWriteFailed(p)
        => /\ pc[p] = "done"
           /\ resp[p].status >= 500
           /\ args[p].op = "signup" => loc[p].userId \notin Users

\* The stored credential is malformed: the hash or the salt is null, or the
\* hash does not decode to HASH_BYTES bytes.
StoredMalformed(stored) ==
    \/ stored.salt = NullSalt
    \/ stored.hash = NullHash
    \/ HexBytes(stored.hash) # HASH_BYTES

\* C23: a call of verifyIcalUrl with a malformed stored credential returns
\* false, and no call of verifyIcalUrl throws to its caller.
C23_VerifyFailsClosed ==
    /\ verifying.outcome # "throws"
    /\ (verifying.outcome \notin {"none", "pending"} /\ StoredMalformed(verifying.stored))
         => verifying.outcome = "false"

\* The token has a session row and the row has expired.
HasExpiredRow(token) ==
    \E s \in sessions : s.token_hash = HashToken(token) /\ s.expires_at <= now

\* The token has no session row at all.
HasNoRow(token) == \A s \in sessions : s.token_hash # HashToken(token)

\* C24: me and requireAuth, presented with a token whose session row has
\* expired or with a token that has no session row, give one and the same
\* answer, 401 'Session expired' with no session attached, and validateSession
\* returns no session for both.
C24_ExpiredLikeNeverExisted ==
    [][\A p \in Procs :
          ( /\ pc[p] = "idle"
            /\ args'[p].op \in {"me", "requireAuth"}
            /\ args'[p].token # NoToken
            /\ HasExpiredRow(args'[p].token) \/ HasNoRow(args'[p].token) )
          => /\ ValidateSession(args'[p].token) = NoSession
             /\ pc'[p] = "done"
             /\ resp'[p] = Failure(401, "Session expired")
             /\ loc'[p].session = NoSession]_vars

\* C24 witness: requireAuth refused a token whose expired row is still stored.
C24_Witness ==
    \E p \in Procs :
        /\ pc[p] = "done"
        /\ args[p].op = "requireAuth"
        /\ resp[p] = Failure(401, "Session expired")
        /\ HasExpiredRow(args[p].token)

\* storeRecoveryCodes is running in slot p; loc[p].codes is its argument.
InStoreRecoveryCodes(p) == pc[p] \in {"store:begin", "store:insert", "store:commit"}

\* C25: no stored row holds a plaintext secret (session rows hold the hash of
\* the token, account rows the hash and salt of the credential, recovery-code
\* rows hash and salt), and the codes passed to storeRecoveryCodes carry no
\* plaintext.
C25_NoPlaintextStoredOrPassed ==
    /\ \A s \in sessions :
         /\ DOMAIN s = {"user_id", "token_hash", "expires_at"}
         /\ \E t \in issued : s.token_hash = HashToken(t.token)
    /\ \A u \in Users :
         /\ DOMAIN users[u] = {"emoji_id", "ical_hash", "ical_salt"}
         /\ users[u].ical_hash = DeriveHash(CredentialSource(u), users[u].ical_salt)
    /\ \A id \in 1..Len(recovery_codes) :
         DOMAIN recovery_codes[id] = {"user_id", "hash", "salt", "used"}
    /\ \A p \in Procs :
         InStoreRecoveryCodes(p)
         => \A k \in 1..Len(loc[p].codes) : "plain" \notin DOMAIN loc[p].codes[k]

\* The credential sources that verify against the stored credential of u.
UsableCredentials(u) ==
    { url \in UrlInputs : VerifyIcalUrl(url, StoredCredential(u)) }

\* The recover in slot p executes its UPDATE of the credential.
Rotates(p) ==
    /\ pc[p] = "recover:rotate"
    /\ pc'[p] = "recover:remaining"

\* C26: the rotation of a recover replaces the account's (hash, salt) pair:
\* after it the new credential verifies and no other does, the previous one
\* included; and at all times exactly one credential source verifies against
\* an account's stored pair.
C26_RotationReplacesCredential ==
    /\ [][\A p \in Procs :
             Rotates(p)
             => LET u == loc[p].userId
                IN /\ UsableCredentials(u)' = {args[p].newIcalUrl}
                   /\ \A old \in UsableCredentials(u) :
                        old # args[p].newIcalUrl => old \notin UsableCredentials(u)'
                   /\ \A v \in Users \ {u} : users'[v] = users[v]]_vars
    /\ [](\A u \in Users : Cardinality(UsableCredentials(u)) = 1)

\* C26 witness: a signin with credential A had succeeded for the account; a
\* recover then rotated the account to another credential B and succeeded;
\* A no longer verifies and B does.
C26_Witness ==
    \E p, q \in Procs :
        /\ pc[q] = "done" /\ args[q].op = "signin" /\ resp[q].status = 200
        /\ RecoverSucceeded(p)
        /\ loc[p].userId = loc[q].userId
        /\ IsPlausibleIcalUrl(args[p].newIcalUrl)
        /\ args[p].newIcalUrl # args[q].icalUrl
        /\ UsableCredentials(loc[p].userId) = {args[p].newIcalUrl}

\* C27: the stored (hash, salt) pair of an account changes only in the
\* rotation step of a recover request for that account (its emojiId) whose
\* code consumption succeeded and whose new credential is present and of
\* valid format; every other step of every request, and the purge, leave it
\* unchanged.
C27_CredentialChangesOnlyInRecover ==
    [][\A u \in Users :
          StoredCredential(u)' # StoredCredential(u)
          => \E p \in Procs :
                /\ Rotates(p)
                /\ args[p].op = "recover"
                /\ loc[p].userId = u
                /\ users[u].emoji_id = args[p].emojiId
                /\ loc[p].valid
                /\ args[p].recoveryCode \in { c.code : c \in { x \in consumed : x.userId = u } }
                /\ args[p].newIcalUrl # NoUrl
                /\ args[p].newIcalUrl.protocol \in {"https:", "webcal:"}]_vars

\* C27 witness: with two accounts stored, a recover has rotated one of them
\* to a new credential and the other account holds a different credential.
C27_Witness ==
    \E p \in Procs, v \in Users :
        /\ RecoverSucceeded(p)
        /\ args[p].newIcalUrl # NoUrl
        /\ v # loc[p].userId
        /\ CredentialSource(loc[p].userId) = args[p].newIcalUrl
        /\ CredentialSource(v) # args[p].newIcalUrl

\* C28: a refused signin with a well-formed emojiId has performed exactly one
\* stretched hash derivation by the time its failure response is sent, on the
\* account-not-found path as on the credential-mismatch path, so any two
\* refused signins did equal hashing work.
C28_SigninFailuresHashOnce ==
    \A p, q \in Procs :
        (SigninRefused(p) /\ SigninRefused(q))
        => /\ loc[p].derivations = 1
           /\ loc[p].derivations = loc[q].derivations

\* C28 witness: a signin that found no account and a signin that found the
\* account with another credential, each refused after one derivation.
C28_Witness ==
    \E p, q \in Procs :
        /\ SigninRefused(p) /\ SigninRefused(q)
        /\ UsersByEmojiId(args[p].emojiId) = {} /\ loc[p].userId = 0
        /\ loc[q].userId \in Users
        /\ loc[p].derivations = 1 /\ loc[q].derivations = 1

\* C29: any two recover requests with a well-formed emojiId that fail
\* authentication have performed the same number of stretched hash derivations
\* by the time their failure response is sent, in particular one for an unknown
\* account and one for an existing account whose unused codes the presented
\* code does not match.
C29_RecoverFailuresEqualWork ==
    \A p, q \in Procs :
        (RecoverRefused(p) /\ RecoverRefused(q))
        => loc[p].derivations = loc[q].derivations

\* The token is within its TTL and has not been revoked.
IsLiveToken(t) == t.token \notin revoked /\ now < t.at + SESSION_TTL_HOURS

\* C30: with the purge interleaved at any point between the statements of
\* the requests, every issued token validates if and only if it is within
\* its TTL and unrevoked; the purge changes the validation result of no
\* token; and a purge run again at the same time removes nothing more.
C30_PurgeSafeAndIdempotent ==
    /\ [](\A t \in issued : IsLiveToken(t) <=> ValidateSession(t.token) # NoSession)
    /\ [][PurgeExpiredSessions
          => /\ \A token \in TokenInputs :
                  ValidateSession(token)' = ValidateSession(token)
             /\ PurgeExpired(sessions', now') = sessions']_vars

\* C30 witness: the purge has removed the expired row of an unrevoked token
\* while a signin is waiting to create its session and another token is live.
C30_Witness ==
    \E p \in Procs, t1, t2 \in issued :
        /\ pc[p] = "signin:session"
        /\ t1.token \notin revoked
        /\ HasNoRow(t1.token)
        /\ IsLiveToken(t2)
        /\ ValidateSession(t2.token) # NoSession

----------------------------------------------------------------------------
(* Frame conditions and bounds of the session store and the vault *)

\* The token was validated by me at least once: me answered it with a session.
ValidatedByMe(token) == \E g \in answered : g.op = "me" /\ g.token = token

\* C31: me and requireAuth (the callers of validateSession) change no row of
\* the store; the row of an issued token carries expires_at = issue time + 7
\* days as long as it exists; and from that time on the token does not
\* validate, and me and requireAuth refuse it, however often it validated
\* before.
C31_ValidationNeverExtends ==
    /\ [][\A p \in Procs :
             (AnsweredAtOnce(p, "me") \/ AnsweredAtOnce(p, "requireAuth"))
             => /\ storeVars' = storeVars
                /\ IsExpiredToken(args'[p].token) => resp'[p].status = 401]_vars
    /\ [](\A t \in issued :
             /\ \A s \in sessions :
                  s.token_hash = HashToken(t.token)
                  => s.expires_at = t.at + SESSION_TTL_HOURS
             /\ now >= t.at + SESSION_TTL_HOURS
                  => ValidateSession(t.token) = NoSession)

\* C31 witness: me refused, at issue time + 7 days, a token that me had
\* answered with a session before; the token's row is still stored.
C31_Witness ==
    \E p \in Procs, t \in issued :
        /\ pc[p] = "done"
        /\ args[p].op = "me"
        /\ args[p].token = t.token
        /\ resp[p].status = 401
        /\ ValidatedByMe(t.token)
        /\ now = t.at + SESSION_TTL_HOURS
        /\ \E s \in sessions : s.token_hash = HashToken(t.token)

\* C32: the step of signout that runs deleteSession(token) removes at most one
\* session row, the row whose token_hash is hash(token); every other issued
\* token validates after the step exactly as before it; and no account row
\* (emoji_id, credential) and no recovery-code row is changed or removed.
C32_SignoutRemovesOneRowOnly ==
    [][\A p \in Procs :
          AnsweredAtOnce(p, "signout")
          => /\ sessions' \subseteq sessions
             /\ Cardinality(sessions \ sessions') <= 1
             /\ \A s \in sessions \ sessions' :
                  s.token_hash = HashToken(args'[p].token)
             /\ \A t \in issued :
                  t.token # args'[p].token
                  => ValidateSession(t.token)' = ValidateSession(t.token)
             /\ users' = users
             /\ recovery_codes' = recovery_codes]_vars

\* C32 witness: signout removed the row of a token that was live, and another
\* token of the same account still validates; the account row and its
\* CODE_COUNT codes are stored.
C32_Witness ==
    \E p \in Procs, t1, t2 \in issued :
        /\ pc[p] = "done"
        /\ args[p].op = "signout"
        /\ args[p].token = t1.token
        /\ now < t1.at + SESSION_TTL_HOURS
        /\ \A s \in sessions : s.token_hash # HashToken(t1.token)
        /\ t2.token # t1.token
        /\ t2.userId = t1.userId
        /\ ValidateSession(t2.token) # NoSession
        /\ t1.userId \in Users
        /\ Cardinality(CodesOf(t1.userId)) = CODE_COUNT

\* The step of the signup in slot p that creates its account row.
CreatesAccount(p) ==
    /\ pc[p] = "signup:insert"
    /\ pc'[p] = "store:begin"
    /\ Len(users') = Len(users) + 1

\* The accounts whose signup stored its batch of recovery codes.
CompleteAccounts == { u \in Users : Cardinality(CodesOf(u)) = CODE_COUNT }

\* C33: no two accounts whose signup completed hold a credential derived from
\* the same credential source, and a signup creates no account row when such
\* an account already holds a credential derived from the source it presents.
C33_OneAccountPerCredential ==
    /\ [](\A u, v \in CompleteAccounts :
             u # v => CredentialSource(u) # CredentialSource(v))
    /\ [][\A p \in Procs :
             CreatesAccount(p)
             => \A u \in CompleteAccounts :
                   CredentialSource(u) # args[p].icalUrl]_vars

\* The unused rows of the account that are the presented code's.
OwnUnusedMatches(userId, code) ==
    { id \in 1..Len(recovery_codes) :
        /\ recovery_codes[id].user_id = userId
        /\ ~recovery_codes[id].used
        /\ HashCode(code, recovery_codes[id].salt) = recovery_codes[id].hash }

\* C34: the SELECT and loop of consumeRecoveryCode(account, code) change no
\* row, return failure when no unused row of that account is the code's (so
\* for a code that is valid and unused for another account), and otherwise
\* pick a row of that account; the UPDATE that follows marks that row of that
\* account and leaves every other recovery-code row, every account row and
\* every session row as it was.
C34_ConsumeTouchesOwnRowOnly ==
    [][\A p \in Procs :
          /\ (pc[p] = "consume:select" /\ pc'[p] # "consume:select")
             => /\ storeVars' = storeVars
                /\ OwnUnusedMatches(loc[p].userId, args[p].recoveryCode) = {}
                   => /\ pc'[p] = "done"
                      /\ resp'[p].status = 401
                      /\ ~loc'[p].valid
                /\ pc'[p] = "consume:mark"
                   => loc'[p].matchId \in
                         OwnUnusedMatches(loc[p].userId, args[p].recoveryCode)
          /\ (pc[p] = "consume:mark" /\ pc'[p] # "consume:mark")
             => /\ Len(recovery_codes') = Len(recovery_codes)
                /\ \A id \in 1..Len(recovery_codes) :
                     IF id = loc[p].matchId
                     THEN /\ recovery_codes[id].user_id = loc[p].userId
                          /\ recovery_codes'[id] =
                               [recovery_codes[id] EXCEPT !.used = TRUE]
                     ELSE recovery_codes'[id] = recovery_codes[id]
                /\ users' = users
                /\ sessions' = sessions]_vars

\* C34 witness: a recover for one account presented a code that was handed
\* out for another account and is still unused there; it was refused.
C34_Witness ==
    \E p \in Procs, h \in handed :
        /\ pc[p] = "done"
        /\ args[p].op = "recover"
        /\ args[p].recoveryCode = h.code
        /\ loc[p].userId \in Users
        /\ loc[p].userId # h.userId
        /\ loc[p].rows # {}
        /\ resp[p].status = 401
        /\ OwnUnusedMatches(h.userId, h.code) # {}

\* The unused recovery-code rows of the account.
OwnUnused(u) ==
    { id \in 1..Len(recovery_codes) :
        recovery_codes[id].user_id = u /\ ~recovery_codes[id].used }

\* The recover requests answered with success for the account.
RecoveriesOf(u) == { g \in answered : g.op = "recover" /\ g.userId = u }

\* C35: in every state, for every account, at most CODE_COUNT recover
\* requests have been answered with success; no step adds a recovery-code row
\* to an account that has its batch or turns a used row into an unused one;
\* and a recover for an account that has no unused row fails.
C35_AtMostCodeCountRecoveries ==
    /\ [](\A u \in Users : Cardinality(RecoveriesOf(u)) <= CODE_COUNT)
    /\ [][/\ \A u \in Users :
               Cardinality(OwnUnused(u)') <= Cardinality(OwnUnused(u))
               \/ CodesOf(u) = {}
          /\ \A p \in Procs :
               ( /\ pc[p] = "consume:select"
                 /\ pc'[p] # "consume:select"
                 /\ OwnUnused(loc[p].userId) = {} )
               => resp'[p].status = 401]_vars

\* A step of a recover request in slot p that asks for a rotation: its
\* arrival, or any later step of its handler.
RotatingRecoverStep(p) ==
    \/ /\ pc[p] = "idle"
       /\ args'[p].op = "recover"
       /\ args'[p].newIcalUrl # NoUrl
    \/ /\ args[p].op = "recover"
       /\ args[p].newIcalUrl # NoUrl
       /\ pc[p] \notin {"idle", "done", "crashed"}
       /\ pc'[p] # pc[p]

\* C36: no step of a recover request that asks for a rotation, the UPDATE of
\* the credential included, removes or changes a session row, and every
\* issued token validates after the step exactly as before it.
C36_RotationKeepsSessions ==
    [][\A p \in Procs :
          RotatingRecoverStep(p)
          => /\ sessions \subseteq sessions'
             /\ \A t \in issued :
                  ValidateSession(t.token)' = ValidateSession(t.token)]_vars

\* C36 witness: a recover rotated the credential and succeeded; a token of
\* the account issued before the rotation (before the new salt was drawn)
\* still validates, and the credential the account had no longer verifies.
C36_Witness ==
    \E p \in Procs, t \in issued :
        /\ RecoverSucceeded(p)
        /\ args[p].newIcalUrl # NoUrl
        /\ UsableCredentials(loc[p].userId) = {args[p].newIcalUrl}
        /\ t.userId = loc[p].userId
        /\ t.token < users[loc[p].userId].ical_salt
        /\ ValidateSession(t.token) # NoSession

====
